---- MODULE Spec2Model ----
(***************************************************************************)
(* pdf-rag-app: the ingestion / retrieval pipeline.                        *)
(*                                                                         *)
(*   app/data_loader.py   load_and_chunk_pdf                               *)
(*   app/vector_db.py     QdrantStorage (constructor, upsert, search)      *)
(*   app/main.py          rag_ingest_pdf, rag_query_pdf_ai and their       *)
(*                        throttle / rate-limit configuration              *)
(*   app/streamlit_app.py get_run_output      (the caller's wait)          *)
(*   streamlit_app.py     wait_for_run_output (the caller's wait)          *)
(*                                                                         *)
(* Four specifications share the module:                                  *)
(*   Spec        the two job functions run step by step against the store  *)
(*   SpecAdmit   admission of ingest events: rate limit, throttle, time    *)
(*   SpecWait    a caller polling the runs of one event                    *)
(*   SpecChunk   load_and_chunk_pdf on the pages of one file               *)
(*                                                                         *)
(* Time is counted in minutes in SpecAdmit and in poll intervals in        *)
(* SpecWait.  A text is a slice [tag, off, len] of a page: two texts are   *)
(* equal exactly when they are the same characters of the same page.       *)
(***************************************************************************)
EXTENDS Integers, Sequences, FiniteSets, TLC

(***************************************************************************)
(* Bounds of the model.                                                    *)
(***************************************************************************)
MaxJobs == 2

MaxAttempts == 2

MaxTopK == 2

MaxReq == 3

MaxTimeout == 3
\* Pages of the file load_and_chunk_pdf reads (SpecChunk).
MaxPages == 2

(***************************************************************************)
(* Program constants.                                                      *)
(***************************************************************************)
EMBED_DIM == 384

DefaultDim == 384

ChunkSize == 1000

ChunkOverlap == 200

\* A bug: the throttle is configured with a looser limit.
ThrottleLimitLoose == 2 + 1

\* throttle=inngest.Throttle(limit=2, period=datetime.timedelta(minutes=1))
ThrottleLimit == 2

ThrottlePeriod == 1

\* rate_limit=inngest.RateLimit(limit=1, period=datetime.timedelta(hours=4),
\*                              key="event.data.source_id")
RateLimitLimit == 1

RateLimitPeriod == 4 * 60

\* A bug: the rate limit has no key, and all sources share one limit.
RateLimitKeyNone(source_id) == ""

RateLimitKey(source_id) == source_id

JobIds == 1..MaxJobs

Sources == {"a.pdf", "b.pdf"}

Min(a, b) == IF a <= b THEN a ELSE b

Max(a, b) == IF a >= b THEN a ELSE b

Abs(a) == IF a >= 0 THEN a ELSE -a

(***************************************************************************)
(* Texts and documents.  PDFReader().load_data yields one document per     *)
(* page; a page is [tag, len], its text the slice [tag, 0, len].           *)
(***************************************************************************)
Page(t, n) == [tag |-> t, len |-> n]

Slice(t, o, n) == [tag |-> t, off |-> o, len |-> n]

NoText == Slice(0, 0, 0)

\* Python truthiness of a str: non-empty.
Truthy(text) == text.len > 0

Doc1 == <<Page(1, 2500)>>

Doc2 == <<Page(2, 900)>>

Doc3 == <<Page(3, 1200), Page(4, 0), Page(5, 300)>>

Docs == {Doc1, Doc2, Doc3}

\* What an upload leaves at uploads/<name>: a readable PDF or a corrupt one.
Readable(d) == [ok |-> TRUE, pages |-> d]

Corrupt == [ok |-> FALSE, pages |-> <<>>]

\* The uploads of Spec: three chunks, one chunk, or no readable PDF.
Uploads == {Readable(Doc1), Readable(Doc2), Corrupt}

\* splitter.split_text: windows of ChunkSize with stride ChunkSize - ChunkOverlap.
NumChunks(n) ==
    IF n = 0 THEN 0
    ELSE IF n <= ChunkSize THEN 1
    ELSE 1 + ((n - ChunkSize) + (ChunkSize - ChunkOverlap) - 1) \div (ChunkSize - ChunkOverlap)

SplitText(p) ==
    [i \in 1..NumChunks(p.len) |->
        Slice(p.tag, (i - 1) * (ChunkSize - ChunkOverlap),
              Min(ChunkSize, p.len - (i - 1) * (ChunkSize - ChunkOverlap)))]

RECURSIVE ExtendAll(_, _)
\* chunks = []; for t in texts: chunks.extend(splitter.split_text(t))
ExtendAll(texts, chunks) ==
    IF texts = <<>> THEN chunks
    ELSE ExtendAll(Tail(texts), chunks \o SplitText(Head(texts)))

\* load_and_chunk_pdf on a readable file.
LoadAndChunk(pages) ==
    ExtendAll(SelectSeq(pages, LAMBDA d : d.len > 0), <<>>)

(***************************************************************************)
(* Embedding and similarity.  encode() is a function of the text; the      *)
(* vector keeps its length and the text it embeds.  Score stands for the   *)
(* cosine similarity the store ranks by.                                   *)
(***************************************************************************)
Embed(text) == [dim |-> EMBED_DIM, of |-> text]

Feat(text) == text.tag + (text.off \div (ChunkSize - ChunkOverlap))

Score(qv, v) == 0 - Abs(Feat(qv.of) - Feat(v.of))

Questions == {Slice(1, 0, 40), Slice(3, 0, 25)}

(***************************************************************************)
(* State.                                                                  *)
(***************************************************************************)
VARIABLES
    coll,       \* the Qdrant collection "docs": [exists, dim, points]
    files,      \* uploads/<name>, by source
    event,      \* the event that triggered each job
    status,     \* "none", "queued", "running", "succeeded", "failed"
    memo,       \* the persisted step outputs of each job
    attempts,   \* failed attempts of the job's current step
    error,      \* the error of the job's last failed attempt
    result,     \* the job's output
    loadRuns,   \* history: executions of _load that ran to completion
    writes,     \* history: upserts the job sent to the store
    genCalls,   \* history: calls of run_qa_async
    handleDim,  \* history: self.dim of the QdrantStorage the job last built
    lastIngest, \* history: the chunks last upserted for each source
    hits,       \* history: what client.search returned to the job's search step
    \* SpecAdmit
    reqSrc,     \* the source_id of each ingest event ("" before it is sent)
    reqSt,      \* "none", "rejected", "queued", "running"
    reqError,   \* "RateLimitExceeded" for a rejected event
    rateTTL,    \* minutes the event's admission still counts against its key
    throttleTTL,\* minutes the event's start still counts against the throttle
    sinceAdmit, \* history: minutes since the source's last admission, up to 4 h
    sinceStart, \* history: minutes since the event's run started, up to 1
    \* SpecWait
    runStatus,  \* the status the runs endpoint gives ("" while there is no run)
    runOutput,  \* the output the runs endpoint gives
    impl,       \* which wait the caller runs
    timeout,    \* timeout_s, in poll intervals
    elapsed,    \* time.time() - start, in poll intervals
    wpc,        \* "idle", "polling", "returned", "raised", "timeout"
    wres,       \* what the wait returned or raised
    seen,       \* history: the status of the run in the last answer the wait read
    \* SpecChunk
    pdf,        \* the pages PDFReader().load_data gives for the file
    pdfTexts,   \* texts: those load_and_chunk_pdf has still to split
    pdfChunks,  \* chunks: the list load_and_chunk_pdf builds
    cpc         \* "idle", "start", "loop", "returned"

storeVars == <<coll, files>>

jobVars == <<event, status, memo, attempts, error, result>>

histVars == <<loadRuns, writes, genCalls, handleDim, lastIngest, hits>>

admitVars == <<reqSrc, reqSt, reqError, rateTTL, throttleTTL, sinceAdmit, sinceStart>>

waitVars == <<runStatus, runOutput, impl, timeout, elapsed, wpc, wres, seen>>

chunkVars == <<pdf, pdfTexts, pdfChunks, cpc>>

vars == <<storeVars, jobVars, histVars, admitVars, waitVars, chunkVars>>

ReqIds == 1..MaxReq

AdmitSources == {"a.pdf", "b.pdf", "c.pdf"}

\* The output of a run: a result, or an error object with or without the
\* key "error".
NoOutput == [kind |-> "none", error |-> <<>>, ingested |-> 0]

NoResult == [kind |-> "none", output |-> NoOutput, msg |-> ""]

NoEvent == [kind |-> "none", source_id |-> "", question |-> NoText, top_k |-> 0]

NoMemo == [load |-> <<>>, upsert |-> <<>>, search |-> <<>>]

EmptyColl(d) == [exists |-> TRUE, dim |-> d, points |-> {}]

AbsentColl == [exists |-> FALSE, dim |-> 0, points |-> {}]

(***************************************************************************)
(* The vector store.  points is a set of records with distinct ids.        *)
(***************************************************************************)
\* A bug: the id is derived from the index alone, uuid5(NAMESPACE_URL, f"{i}").
DeriveIdNoSource(src, i) == <<"", i>>

\* str(uuid.uuid5(uuid.NAMESPACE_URL, f"{source_id}:{i}")): one id per (source, i).
DeriveId(src, i) == <<src, i>>

\* QdrantStorage.__init__: create the collection when it does not exist.
QdrantStorageInit(c, dim) ==
    IF ~c.exists THEN EmptyColl(dim) ELSE c

\* A bug: the vectors are paired with the ids from the other end of the list.
PointStructsMisaligned(ids, vectors, payloads) ==
    {[id |-> ids[i], vector |-> vectors[Len(ids) + 1 - i], payload |-> payloads[i]] :
        i \in 1..Len(ids)}

\* PointStruct(id=ids[i], vector=vectors[i], payload=payloads[i]) for i in range(len(ids))
PointStructs(ids, vectors, payloads) ==
    {[id |-> ids[i], vector |-> vectors[i], payload |-> payloads[i]] : i \in 1..Len(ids)}

\* The store takes a batch only when every vector has the collection's size.
UpsertAccepted(c, pts) == \A p \in pts : p.vector.dim = c.dim

\* A bug: the records the source had are deleted before the new ones go in.
ClientUpsertReplacing(c, pts) ==
    [c EXCEPT !.points =
        {p \in c.points : \A n \in pts : n.payload.source # p.payload.source} \cup pts]

\* client.upsert: insert or overwrite by id.
ClientUpsert(c, pts) ==
    [c EXCEPT !.points = {p \in c.points : \A n \in pts : n.id # p.id} \cup pts]

\* ids of _upsert, for chunks_and_src = cs.
UpsertIds(cs) == [i \in 1..Len(cs.chunks) |-> DeriveId(cs.source_id, i - 1)]

\* payloads of _upsert.
UpsertPayloads(cs) ==
    [i \in 1..Len(cs.chunks) |-> [source |-> cs.source_id, text |-> cs.chunks[i]]]

\* vecs of _upsert: embed_texts_async(chunks).
EmbedTexts(texts) == [i \in 1..Len(texts) |-> Embed(texts[i])]

UpsertPoints(cs) ==
    PointStructs(UpsertIds(cs), EmbedTexts(cs.chunks), UpsertPayloads(cs))

\* client.search(query_vector, with_payload=True, limit=top_k): the limit best
\* points, best first; the store breaks ties as it likes.
ClientSearch(c, qv, limit) ==
    LET n == Min(limit, Cardinality(c.points))
    IN  IF n <= 0 THEN {<<>>}
        ELSE {h \in [1..n -> c.points] :
                /\ \A i, k \in 1..n : i < k => h[i].id # h[k].id
                /\ \A i \in 1..(n - 1) : Score(qv, h[i].vector) >= Score(qv, h[i + 1].vector)
                /\ \A p \in c.points :
                     (\A i \in 1..n : h[i].id # p.id)
                        => Score(qv, p.vector) <= Score(qv, h[n].vector)}

\* A bug: the limit is not passed on, and the client's own default applies.
SearchLimitDefault(top_k) == 10

\* limit=top_k
SearchLimit(top_k) == top_k

\* A bug: the kept hits are collected in reverse.
KeptHitsReversed(results) ==
    LET kept == SelectSeq(results, LAMBDA r : Truthy(r.payload.text))
    IN  [i \in 1..Len(kept) |-> kept[Len(kept) + 1 - i]]

\* The hits QdrantStorage.search keeps: those whose payload has a text.
KeptHits(results) == SelectSeq(results, LAMBDA r : Truthy(r.payload.text))

\* A bug: sources.add(source) is taken out of the "if text:" block.
SearchResultAllSources(results) ==
    LET kept == KeptHits(results)
    IN  [contexts |-> [i \in 1..Len(kept) |-> kept[i].payload.text],
         sources  |-> {results[i].payload.source : i \in 1..Len(results)}]

\* QdrantStorage.search, after client.search returned results.
SearchResult(results) ==
    LET kept == KeptHits(results)
    IN  [contexts |-> [i \in 1..Len(kept) |-> kept[i].payload.text],
         sources  |-> {kept[i].payload.source : i \in 1..Len(kept)}]

(***************************************************************************)
(* The engine that runs the functions.  It calls a function again after    *)
(* every step; step.run returns the persisted output of a step that has    *)
(* completed and runs the first step that has none.  A failed attempt is   *)
(* retried until MaxAttempts attempts of that step have failed, unless the *)
(* function raised the error as non-retriable.                             *)
(***************************************************************************)
\* A bug: every error is wrapped as non-retriable.
RaisedAsNonRetriable(err) == "NonRetriableError"

\* How rag_ingest_pdf and rag_query_pdf_ai raise an error of a step: they
\* catch nothing and wrap nothing, so every error reaches the engine as a
\* plain exception.
RaisedAs(err) == "Exception"

StepFailed(j, err) ==
    /\ error' = [error EXCEPT ![j] = err]
    /\ attempts' = [attempts EXCEPT ![j] = attempts[j] + 1]
    /\ IF RaisedAs(err) = "NonRetriableError" \/ attempts[j] + 1 >= MaxAttempts
       THEN /\ status' = [status EXCEPT ![j] = "failed"]
            /\ result' = [result EXCEPT ![j] = <<[error |-> err]>>]
       ELSE UNCHANGED <<status, result>>

StepCompleted(j) ==
    /\ attempts' = [attempts EXCEPT ![j] = 0]
    /\ UNCHANGED <<status, error, result>>

\* The body of rag_ingest_pdf on the persisted outputs m: which step.run runs.
IngestNext(m) ==
    IF m.load = <<>> THEN "load-and-chunk"
    ELSE IF m.upsert = <<>> THEN "embed-and-upsert"
    ELSE "return"

\* A bug: _upsert loads the file again instead of taking the step's output.
UpsertInputReload(j) ==
    [chunks |-> LoadAndChunk(files[event[j].source_id].pages),
     source_id |-> event[j].source_id]

\* The argument of _upsert: the output of step load-and-chunk.
UpsertInput(j) == memo[j].load[1]

\* The body of rag_query_pdf_ai on the persisted outputs m.
QueryNext(m) ==
    IF m.search = <<>> THEN "embed-and-search" ELSE "answer"

\* A bug: the check for an empty search result is missing.
NoContextsUnchecked(found) == FALSE

\* if not found.contexts
NoContexts(found) == found.contexts = <<>>

SentinelAnswer == "No relevant information found in the documents."

(***************************************************************************)
(* Actions of Spec.                                                        *)
(***************************************************************************)
\* The Ingest button: save the upload, send rag/ingest_pdf.
SubmitIngest(j, src, up) ==
    /\ status[j] = "none"
    /\ \A k \in 1..(j - 1) : status[k] # "none"
    /\ files' = [files EXCEPT ![src] = up]
    /\ event' = [event EXCEPT ![j] =
          [kind |-> "ingest", source_id |-> src, question |-> NoText, top_k |-> 0]]
    /\ status' = [status EXCEPT ![j] = "queued"]
    /\ UNCHANGED <<coll, memo, attempts, error, result, histVars, admitVars, waitVars, chunkVars>>

\* The Ask form: send rag/query_pdf_ai.
SubmitQuery(j, q, k) ==
    /\ status[j] = "none"
    /\ \A i \in 1..(j - 1) : status[i] # "none"
    /\ event' = [event EXCEPT ![j] =
          [kind |-> "query", source_id |-> "", question |-> q, top_k |-> k]]
    /\ status' = [status EXCEPT ![j] = "queued"]
    /\ UNCHANGED <<storeVars, memo, attempts, error, result, histVars, admitVars, waitVars, chunkVars>>

\* The engine starts the run of an admitted event.
StartRun(j) ==
    /\ status[j] = "queued"
    /\ status' = [status EXCEPT ![j] = "running"]
    /\ UNCHANGED <<storeVars, event, memo, attempts, error, result, histVars, admitVars, waitVars, chunkVars>>

\* Step load-and-chunk: _load.
IngestLoad(j) ==
    /\ status[j] = "running" /\ event[j].kind = "ingest"
    /\ IngestNext(memo[j]) = "load-and-chunk"
    /\ LET f == files[event[j].source_id]
       IN  IF f.ok
           THEN /\ memo' = [memo EXCEPT ![j].load =
                      <<[chunks |-> LoadAndChunk(f.pages), source_id |-> event[j].source_id]>>]
                /\ loadRuns' = [loadRuns EXCEPT ![j] = loadRuns[j] + 1]
                /\ StepCompleted(j)
           ELSE /\ StepFailed(j, "LoadError")
                /\ UNCHANGED <<memo, loadRuns>>
    /\ UNCHANGED <<storeVars, event, writes, genCalls, handleDim, lastIngest, hits, admitVars, waitVars, chunkVars>>

UpsertOutcomes == {"ok", "EmbeddingError", "ConnectionError", "LostReply"}

\* Step embed-and-upsert: _upsert.  The embedding may fail before anything
\* is sent; the store may fail after QdrantStorage() and before the write
\* (ConnectionError), or after the write, the reply being lost (LostReply).
IngestUpsert(j, o) ==
    /\ status[j] = "running" /\ event[j].kind = "ingest"
    /\ IngestNext(memo[j]) = "embed-and-upsert"
    /\ LET cs     == UpsertInput(j)
           pts    == UpsertPoints(cs)
           opened == QdrantStorageInit(coll, DefaultDim)
       IN  IF o = "EmbeddingError"
           THEN /\ StepFailed(j, "EmbeddingError")
                /\ UNCHANGED <<coll, memo, writes, handleDim, lastIngest>>
           ELSE /\ handleDim' = [handleDim EXCEPT ![j] = DefaultDim]
                /\ IF o = "ConnectionError"
                   THEN /\ coll' = opened
                        /\ StepFailed(j, "ConnectionError")
                        /\ UNCHANGED <<memo, writes, lastIngest>>
                   ELSE IF ~UpsertAccepted(opened, pts)
                   THEN /\ coll' = opened
                        /\ StepFailed(j, "DimensionMismatch")
                        /\ UNCHANGED <<memo, writes, lastIngest>>
                   ELSE /\ coll' = ClientUpsert(opened, pts)
                        /\ writes' = [writes EXCEPT ![j] = writes[j] + 1]
                        /\ lastIngest' = [lastIngest EXCEPT ![cs.source_id] = <<cs.chunks>>]
                        /\ IF o = "ok"
                           THEN /\ memo' = [memo EXCEPT ![j].upsert =
                                      <<[ingested |-> Len(cs.chunks)]>>]
                                /\ StepCompleted(j)
                           ELSE /\ StepFailed(j, "ConnectionError")
                                /\ UNCHANGED memo
    /\ UNCHANGED <<files, event, loadRuns, genCalls, hits, admitVars, waitVars, chunkVars>>

\* return ingested.model_dump()
IngestReturn(j) ==
    /\ status[j] = "running" /\ event[j].kind = "ingest"
    /\ IngestNext(memo[j]) = "return"
    /\ status' = [status EXCEPT ![j] = "succeeded"]
    /\ result' = [result EXCEPT ![j] = memo[j].upsert]
    /\ UNCHANGED <<storeVars, event, memo, attempts, error, histVars, admitVars, waitVars, chunkVars>>

SearchOutcomes == {"ok", "EmbeddingError", "ConnectionError"}

\* Step embed-and-search: _search.  A failure of get_collection is logged
\* and ignored.
QuerySearch(j, o) ==
    /\ status[j] = "running" /\ event[j].kind = "query"
    /\ QueryNext(memo[j]) = "embed-and-search"
    /\ LET qv     == Embed(event[j].question)
           opened == QdrantStorageInit(coll, DefaultDim)
       IN  IF o = "EmbeddingError"
           THEN /\ StepFailed(j, "EmbeddingError")
                /\ UNCHANGED <<coll, memo, handleDim, hits>>
           ELSE /\ handleDim' = [handleDim EXCEPT ![j] = DefaultDim]
                /\ coll' = opened
                /\ IF o = "ConnectionError"
                   THEN /\ StepFailed(j, "ConnectionError")
                        /\ UNCHANGED <<memo, hits>>
                   ELSE IF qv.dim # opened.dim
                   THEN /\ StepFailed(j, "DimensionMismatch")
                        /\ UNCHANGED <<memo, hits>>
                   ELSE /\ \E h \in ClientSearch(opened, qv, SearchLimit(event[j].top_k)) :
                              /\ memo' = [memo EXCEPT ![j].search = <<SearchResult(h)>>]
                              /\ hits' = [hits EXCEPT ![j] = h]
                        /\ StepCompleted(j)
    /\ UNCHANGED <<files, event, loadRuns, writes, genCalls, lastIngest, admitVars, waitVars, chunkVars>>

AnswerOutcomes == {"ok", "GenerationError"}

\* The rest of rag_query_pdf_ai, outside any step: the fixed answer when
\* there is no context, else the prompt and run_qa_async.
QueryAnswer(j, o) ==
    /\ status[j] = "running" /\ event[j].kind = "query"
    /\ QueryNext(memo[j]) = "answer"
    /\ LET found == memo[j].search[1]
       IN  IF NoContexts(found)
           THEN /\ o = "ok"
                /\ status' = [status EXCEPT ![j] = "succeeded"]
                /\ result' = [result EXCEPT ![j] =
                      <<[answer |-> SentinelAnswer, sources |-> {}, num_contexts |-> 0]>>]
                /\ UNCHANGED <<attempts, error, genCalls>>
           ELSE /\ genCalls' = [genCalls EXCEPT ![j] = genCalls[j] + 1]
                /\ IF o = "ok"
                   THEN /\ status' = [status EXCEPT ![j] = "succeeded"]
                        /\ result' = [result EXCEPT ![j] =
                              <<[answer |-> "generated", sources |-> found.sources,
                                 num_contexts |-> Len(found.contexts)]>>]
                        /\ UNCHANGED <<attempts, error>>
                   ELSE StepFailed(j, "GenerationError")
    /\ UNCHANGED <<storeVars, event, memo, loadRuns, writes, handleDim, lastIngest, hits, admitVars, waitVars, chunkVars>>

(***************************************************************************)
(* Spec: the collection the first job finds is absent, empty, of another   *)
(* vector size, or holds a point without text that another writer left.    *)
(***************************************************************************)
ForeignPoint ==
    [id |-> <<"ext", 0>>, vector |-> Embed(Slice(1, 0, 10)),
     payload |-> [source |-> "ext", text |-> NoText]]

InitColls ==
    {AbsentColl, EmptyColl(DefaultDim), EmptyColl(2 * DefaultDim),
     [EmptyColl(DefaultDim) EXCEPT !.points = {ForeignPoint}]}

\* No job has been submitted.
JobsIdle ==
    /\ files = [s \in Sources |-> Corrupt]
    /\ event = [j \in JobIds |-> NoEvent]
    /\ status = [j \in JobIds |-> "none"]
    /\ memo = [j \in JobIds |-> NoMemo]
    /\ attempts = [j \in JobIds |-> 0]
    /\ error = [j \in JobIds |-> ""]
    /\ result = [j \in JobIds |-> <<>>]
    /\ loadRuns = [j \in JobIds |-> 0]
    /\ writes = [j \in JobIds |-> 0]
    /\ genCalls = [j \in JobIds |-> 0]
    /\ handleDim = [j \in JobIds |-> 0]
    /\ lastIngest = [s \in Sources |-> <<>>]
    /\ hits = [j \in JobIds |-> <<>>]

\* No ingest event has been sent.
AdmitIdle ==
    /\ reqSrc = [r \in ReqIds |-> ""]
    /\ reqSt = [r \in ReqIds |-> "none"]
    /\ reqError = [r \in ReqIds |-> ""]
    /\ rateTTL = [r \in ReqIds |-> 0]
    /\ throttleTTL = [r \in ReqIds |-> 0]
    /\ sinceAdmit = [s \in AdmitSources |-> 4 * 60]
    /\ sinceStart = [r \in ReqIds |-> 1]

\* No caller waits.
WaitIdle ==
    /\ runStatus = ""
    /\ runOutput = NoOutput
    /\ impl = ""
    /\ timeout = 0
    /\ elapsed = 0
    /\ wpc = "idle"
    /\ wres = NoResult
    /\ seen = ""

\* load_and_chunk_pdf is not running.
ChunkIdle ==
    /\ pdf = <<>>
    /\ pdfTexts = <<>>
    /\ pdfChunks = <<>>
    /\ cpc = "idle"

Init ==
    /\ coll \in InitColls
    /\ JobsIdle
    /\ AdmitIdle
    /\ WaitIdle
    /\ ChunkIdle

\* One call of the job's function by the engine.
RunStep(j) ==
    \/ IngestLoad(j)
    \/ \E o \in UpsertOutcomes : IngestUpsert(j, o)
    \/ IngestReturn(j)
    \/ \E o \in SearchOutcomes : QuerySearch(j, o)
    \/ \E o \in AnswerOutcomes : QueryAnswer(j, o)

Next ==
    \/ \E j \in JobIds, src \in Sources, up \in Uploads : SubmitIngest(j, src, up)
    \/ \E j \in JobIds, q \in Questions, k \in 1..MaxTopK : SubmitQuery(j, q, k)
    \/ \E j \in JobIds : StartRun(j)
    \/ \E j \in JobIds : RunStep(j)

\* The engine keeps running what it has admitted.
Fairness == \A j \in JobIds : WF_vars(StartRun(j)) /\ WF_vars(RunStep(j))

Spec == Init /\ [][Next]_vars /\ Fairness

(***************************************************************************)
(* Claims checked under Spec.                                              *)
(***************************************************************************)
Wrote(j) == writes'[j] # writes[j]

\* C1: a run of embed-and-upsert whose source was last upserted with the
\* same chunks (a second ingest of identical content, or the retry of a step
\* whose write had reached the store) leaves the stored points, their ids,
\* vectors and payloads, exactly as they were; the point count does not grow.
C1_IdempotentIngest ==
    [][\A j \in JobIds :
          (Wrote(j) /\ lastIngest[UpsertInput(j).source_id] = <<UpsertInput(j).chunks>>)
             => coll'.points = coll.points]_vars

\* Two jobs have ingested the same content for the same source, one of them
\* writing twice because its first reply was lost.
C1_Witness ==
    \E j, k \in JobIds :
        /\ j # k
        /\ memo[j].upsert # <<>> /\ memo[k].upsert # <<>>
        /\ memo[j].load = memo[k].load
        /\ writes[j] >= 2

\* C3: a query whose search step persisted zero contexts never calls the
\* generation, never fails, and ends succeeded with the fixed answer, no
\* sources and num_contexts = 0.
C3_EmptyIndex ==
    \A j \in JobIds :
        (memo[j].search # <<>> /\ memo[j].search[1].contexts = <<>>)
           => /\ genCalls[j] = 0
              /\ status[j] \in {"running", "succeeded"}
              /\ status[j] = "succeeded" =>
                   result[j] = <<[answer |-> "No relevant information found in the documents.",
                                  sources |-> {}, num_contexts |-> 0]>>

\* A query has succeeded with the fixed answer although the collection
\* holds a point: the only hit carried no text.
C3_Witness ==
    \E j \in JobIds :
        /\ status[j] = "succeeded" /\ event[j].kind = "query"
        /\ result[j][1].num_contexts = 0
        /\ genCalls[j] = 0
        /\ coll.points = {ForeignPoint}

\* C4: _load runs to completion at most once per job; nothing is written
\* before load-and-chunk's output is persisted; a persisted output is never
\* replaced and a completed embed-and-upsert never writes again; what
\* embed-and-upsert writes is the persisted chunks.
C4_Checkpoint ==
    [][\A j \in JobIds :
          /\ loadRuns'[j] <= 1
          /\ Wrote(j) =>
               /\ memo[j].load # <<>> /\ memo[j].upsert = <<>>
               /\ lastIngest'[memo[j].load[1].source_id] = <<memo[j].load[1].chunks>>
          /\ memo[j].load # <<>> => memo'[j].load = memo[j].load
          /\ memo[j].upsert # <<>> => memo'[j].upsert = memo[j].upsert]_vars

\* A job wrote its persisted chunks after the file it had loaded was
\* replaced by another upload, and after a failed first attempt of the step.
C4_Witness ==
    \E j \in JobIds :
        /\ memo[j].upsert # <<>>
        /\ loadRuns[j] = 1
        /\ error[j] # ""
        /\ files[event[j].source_id] # Corrupt
        /\ LoadAndChunk(files[event[j].source_id].pages) # memo[j].load[1].chunks

Terminal(j) == status[j] \in {"succeeded", "failed"}

LegalMoves ==
    {<<"none", "queued">>, <<"queued", "running">>,
     <<"running", "succeeded">>, <<"running", "failed">>}

\* C5: a job moves queued -> running -> succeeded | failed and stays in its
\* terminal state; no step fails more than MaxAttempts times in a row; a job
\* is failed exactly when its attempts are exhausted, and then its output is
\* the error of the last attempt; again and again every submitted job is
\* succeeded or failed, so that every job ends in one of the two.
C5_BoundedRetry ==
    /\ [][\A j \in JobIds :
             status'[j] # status[j] => <<status[j], status'[j]>> \in LegalMoves]_vars
    /\ [](\A j \in JobIds :
             /\ attempts[j] <= MaxAttempts
             /\ status[j] = "failed" <=> attempts[j] = MaxAttempts
             /\ status[j] = "failed" => result[j] = <<[error |-> error[j]]>>)
    /\ []<>(\A j \in JobIds : status[j] = "none" \/ Terminal(j))

\* A job failed on a DimensionMismatch after MaxAttempts attempts while
\* another succeeded after a retried attempt.
C5_Witness ==
    \E j, k \in JobIds :
        /\ status[j] = "failed" /\ attempts[j] = MaxAttempts
        /\ status[k] = "succeeded" /\ error[k] # ""

\* C6: the first failure of a step with LoadError, InvalidParameter or
\* DimensionMismatch leaves the job failed.
C6_NonRetryable ==
    \A j \in JobIds :
        (attempts[j] >= 1 /\ error[j] \in {"LoadError", "InvalidParameter", "DimensionMismatch"})
           => status[j] = "failed"

\* C9: the search step persists at most top_k contexts, and they are texts
\* of hits the store returned, taken in the store's order, so that the
\* scores of their records never increase along the contexts.
C9_SearchBound ==
    \A j \in JobIds :
        memo[j].search # <<>> =>
            LET ctx == memo[j].search[1].contexts
                qv  == Embed(event[j].question)
                h   == hits[j]
            IN  /\ Len(ctx) <= event[j].top_k
                /\ \E at \in [1..Len(ctx) -> 1..Len(h)] :
                      /\ \A i \in 1..Len(ctx) : h[at[i]].payload.text = ctx[i]
                      /\ \A i \in 1..(Len(ctx) - 1) :
                            /\ at[i] < at[i + 1]
                            /\ Score(qv, h[at[i]].vector) >= Score(qv, h[at[i + 1]].vector)

\* A search over more points than top_k returned two contexts of different
\* score.
C9_Witness ==
    \E j \in JobIds :
        /\ memo[j].search # <<>>
        /\ Len(memo[j].search[1].contexts) = 2
        /\ Cardinality(coll.points) > event[j].top_k
        /\ Score(Embed(event[j].question), hits[j][1].vector)
              > Score(Embed(event[j].question), hits[j][2].vector)

\* A search dropped a hit without text and kept the one after it.
C9_WitnessDropped ==
    \E j \in JobIds :
        /\ memo[j].search # <<>>
        /\ Len(hits[j]) = 2
        /\ ~Truthy(hits[j][1].payload.text)
        /\ Len(memo[j].search[1].contexts) = 1

\* C10: a QdrantStorage a job built has the dim of the collection it opened.
C10_DimChecked ==
    \A j \in JobIds : handleDim[j] # 0 => handleDim[j] = coll.dim

(***************************************************************************)
(* SpecAdmit: the admission of rag/ingest_pdf events.  An event is counted *)
(* against the rate limit of its key for RateLimitPeriod minutes after its *)
(* admission, and against the throttle for ThrottlePeriod minutes after    *)
(* its run started.  Time passes in steps that end at, or one minute       *)
(* before, the end of a running period.                                    *)
(***************************************************************************)
\* Admissions of the key that still count.
RateCount(key) ==
    Cardinality({r \in ReqIds : rateTTL[r] > 0 /\ RateLimitKey(reqSrc[r]) = key})

\* Starts that still count.
ThrottleCount == Cardinality({r \in ReqIds : throttleTTL[r] > 0})

\* An ingest event arrives: rejected when its key has used its limit,
\* queued otherwise.
AdmitEvent(r, src) ==
    /\ reqSt[r] = "none"
    /\ \A k \in 1..(r - 1) : reqSt[k] # "none"
    /\ reqSrc' = [reqSrc EXCEPT ![r] = src]
    /\ IF RateCount(RateLimitKey(src)) >= RateLimitLimit
       THEN /\ reqSt' = [reqSt EXCEPT ![r] = "rejected"]
            /\ reqError' = [reqError EXCEPT ![r] = "RateLimitExceeded"]
            /\ UNCHANGED <<rateTTL, sinceAdmit>>
       ELSE /\ reqSt' = [reqSt EXCEPT ![r] = "queued"]
            /\ rateTTL' = [rateTTL EXCEPT ![r] = RateLimitPeriod]
            /\ sinceAdmit' = [sinceAdmit EXCEPT ![src] = 0]
            /\ UNCHANGED reqError
    /\ UNCHANGED <<throttleTTL, sinceStart, storeVars, jobVars, histVars, waitVars, chunkVars>>

\* The run of a queued event starts when the throttle has room.
ThrottleStart(r) ==
    /\ reqSt[r] = "queued"
    /\ ThrottleCount < ThrottleLimit
    /\ reqSt' = [reqSt EXCEPT ![r] = "running"]
    /\ throttleTTL' = [throttleTTL EXCEPT ![r] = ThrottlePeriod]
    /\ sinceStart' = [sinceStart EXCEPT ![r] = 0]
    /\ UNCHANGED <<reqSrc, reqError, rateTTL, sinceAdmit, storeVars, jobVars, histVars, waitVars, chunkVars>>

\* The steps of time worth taking: to the end of a running period, or to
\* one minute before it.
TickSteps ==
    LET ends == {rateTTL[r] : r \in ReqIds} \cup {throttleTTL[r] : r \in ReqIds}
    IN  {d \in ends \cup {e - 1 : e \in ends} : d > 0}

Tick(d) ==
    /\ rateTTL' = [r \in ReqIds |-> Max(rateTTL[r] - d, 0)]
    /\ throttleTTL' = [r \in ReqIds |-> Max(throttleTTL[r] - d, 0)]
    /\ sinceAdmit' = [s \in AdmitSources |-> Min(sinceAdmit[s] + d, 4 * 60)]
    /\ sinceStart' = [r \in ReqIds |-> Min(sinceStart[r] + d, 1)]
    /\ UNCHANGED <<reqSrc, reqSt, reqError, storeVars, jobVars, histVars, waitVars, chunkVars>>

InitAdmit ==
    /\ coll = AbsentColl
    /\ JobsIdle
    /\ AdmitIdle
    /\ WaitIdle
    /\ ChunkIdle

NextAdmit ==
    \/ \E r \in ReqIds, src \in AdmitSources : AdmitEvent(r, src)
    \/ \E r \in ReqIds : ThrottleStart(r)
    \/ \E d \in TickSteps : Tick(d)

\* Time passes, and the engine starts what the throttle lets it start.
FairAdmit ==
    /\ WF_vars(\E d \in TickSteps : Tick(d))
    /\ \A r \in ReqIds : WF_vars(ThrottleStart(r))

SpecAdmit == InitAdmit /\ [][NextAdmit]_vars /\ FairAdmit

(***************************************************************************)
(* Claims checked under SpecAdmit.                                         *)
(***************************************************************************)
Arrives(r) == reqSt[r] = "none" /\ reqSt'[r] # "none"

\* C2: an ingest event that arrives less than 4 hours after the last
\* admission of its source_id is rejected with RateLimitExceeded, and a
\* rejected event is never queued or run; an event that arrives when 4 hours
\* have passed since that admission, or when its source_id was never
\* admitted, is admitted, whatever was admitted for other source_ids.
C2_RateLimit ==
    [][\A r \in ReqIds :
          /\ Arrives(r) =>
               IF sinceAdmit[reqSrc'[r]] < 4 * 60
               THEN reqSt'[r] = "rejected" /\ reqError'[r] = "RateLimitExceeded"
               ELSE reqSt'[r] = "queued" /\ reqError'[r] = ""
          /\ reqSt[r] = "rejected" => reqSt'[r] = "rejected"]_vars

\* Of three events of one source the first was admitted, the second
\* rejected and the third, four hours after the first, admitted.
C2_Witness ==
    \E a, b, c \in ReqIds :
        /\ a < b /\ b < c
        /\ reqSrc[a] = reqSrc[b] /\ reqSrc[b] = reqSrc[c]
        /\ reqSt[a] \in {"queued", "running"}
        /\ reqSt[b] = "rejected"
        /\ reqSt[c] \in {"queued", "running"}

ApiStatuses == {"Queued", "Running", "Completed", "Failed", "Cancelled"}

\* str.lower() on the statuses of the endpoint.
Lower(st) ==
    CASE st = "Queued" -> "queued"
      [] st = "Running" -> "running"
      [] st = "Completed" -> "completed"
      [] st = "Failed" -> "failed"
      [] st = "Cancelled" -> "cancelled"
      [] OTHER -> st

\* get_run_output: status in ["completed", "succeeded"], status lowered.
GetIsSuccess(st) == Lower(st) \in {"completed", "succeeded"}

\* A bug: the branch for failed runs is missing, and the loop polls on.
IsFailureMissing(st) == FALSE

\* get_run_output: status in ["failed", "cancelled"], status lowered.
GetIsFailure(st) == Lower(st) \in {"failed", "cancelled"}

\* wait_for_run_output: status in ("Completed", "Succeeded", "Success", "Finished")
WaitIsSuccess(st) == st \in {"Completed", "Succeeded", "Success", "Finished"}

\* wait_for_run_output: status in ("Failed", "Cancelled")
WaitIsFailure(st) == st \in {"Failed", "Cancelled"}

\* run.get("output", {}).get("error", "Unknown error")
ErrorOf(output) == IF output.error # <<>> THEN output.error[1] ELSE "Unknown error"

Returned(output) == [kind |-> "value", output |-> output, msg |-> ""]

Raised(kind, msg) == [kind |-> kind, output |-> NoOutput, msg |-> msg]

RunOutputs ==
    [Completed |-> {[kind |-> "value", error |-> <<>>, ingested |-> 3]},
     Failed    |-> {[kind |-> "error", error |-> <<"boom">>, ingested |-> 0],
                    [kind |-> "error", error |-> <<>>, ingested |-> 0]},
     Cancelled |-> {[kind |-> "error", error |-> <<>>, ingested |-> 0]}]

\* The handler sends the event and starts to wait.
CallWait(i, t) ==
    /\ wpc = "idle"
    /\ impl' = i
    /\ timeout' = t
    /\ elapsed' = 0
    /\ wpc' = "polling"
    /\ UNCHANGED <<runStatus, runOutput, wres, seen, storeVars, jobVars, histVars, admitVars, chunkVars>>

\* The engine creates the run of the event and moves it on.
RunAdvance(st, out) ==
    /\ wpc # "idle"
    /\ \/ runStatus = "" /\ st = "Queued"
       \/ runStatus = "Queued" /\ st \in {"Running", "Cancelled"}
       \/ runStatus = "Running" /\ st \in {"Completed", "Failed", "Cancelled"}
    /\ IF st \in DOMAIN RunOutputs THEN out \in RunOutputs[st] ELSE out = NoOutput
    /\ runStatus' = st
    /\ runOutput' = out
    /\ UNCHANGED <<impl, timeout, elapsed, wpc, wres, seen, storeVars, jobVars, histVars, admitVars, chunkVars>>

Sleep ==
    /\ elapsed' = elapsed + 1
    /\ UNCHANGED <<wpc, wres>>

\* One iteration of the loop of get_run_output.  got: the request was
\* answered with 200 rather than with another code or an exception.
GetRunOutputPoll(got) ==
    /\ wpc = "polling" /\ impl = "get_run_output"
    /\ IF elapsed < timeout
       THEN IF got /\ runStatus # ""
            THEN /\ seen' = runStatus
                 /\ IF GetIsSuccess(runStatus)
                    THEN /\ wpc' = "returned"
                         /\ wres' = Returned(runOutput)
                         /\ UNCHANGED elapsed
                    ELSE IF GetIsFailure(runStatus)
                    THEN /\ wpc' = "raised"
                         /\ wres' = Raised("RuntimeError", ErrorOf(runOutput))
                         /\ UNCHANGED elapsed
                    ELSE Sleep
            ELSE /\ seen' = ""
                 /\ Sleep
       ELSE /\ wpc' = "timeout"
            /\ wres' = Raised("TimeoutError", "")
            /\ UNCHANGED <<elapsed, seen>>
    /\ UNCHANGED <<runStatus, runOutput, impl, timeout, storeVars, jobVars, histVars, admitVars, chunkVars>>

\* One iteration of the loop of wait_for_run_output.  got: fetch_runs read
\* the answer rather than returning [] after an exception.
WaitForRunOutputPoll(got) ==
    /\ wpc = "polling" /\ impl = "wait_for_run_output"
    /\ seen' = IF got THEN runStatus ELSE ""
    /\ IF got /\ runStatus # "" /\ WaitIsSuccess(runStatus)
       THEN /\ wpc' = "returned"
            /\ wres' = Returned(runOutput)
            /\ UNCHANGED elapsed
       ELSE IF got /\ runStatus # "" /\ WaitIsFailure(runStatus)
       THEN /\ wpc' = "raised"
            /\ wres' = Raised("RuntimeError", ErrorOf(runOutput))
            /\ UNCHANGED elapsed
       ELSE IF elapsed > timeout
       THEN /\ wpc' = "timeout"
            /\ wres' = Raised("TimeoutError", "")
            /\ UNCHANGED elapsed
       ELSE Sleep
    /\ UNCHANGED <<runStatus, runOutput, impl, timeout, storeVars, jobVars, histVars, admitVars, chunkVars>>

InitWait ==
    /\ coll = AbsentColl
    /\ JobsIdle
    /\ AdmitIdle
    /\ WaitIdle
    /\ ChunkIdle

NextWait ==
    \/ \E i \in {"get_run_output", "wait_for_run_output"}, t \in 1..MaxTimeout : CallWait(i, t)
    \/ \E st \in ApiStatuses, out \in UNION {RunOutputs[k] : k \in DOMAIN RunOutputs} \cup {NoOutput} :
          RunAdvance(st, out)
    \/ \E got \in BOOLEAN : GetRunOutputPoll(got)
    \/ \E got \in BOOLEAN : WaitForRunOutputPoll(got)

SpecWait == InitWait /\ [][NextWait]_vars

(***************************************************************************)
(* Claims checked under SpecWait.                                          *)
(***************************************************************************)
WaitOver == wpc \in {"returned", "raised", "timeout"}

\* C7: the wait returns an output only for a run it read as Completed, and
\* then the run's output; a wait that reads a Failed or Cancelled run raises
\* an error with the run's error message ("Unknown error" when the output
\* has none) and never returns; a wait that read neither ends with
\* TimeoutError; the wait ends once, and its outcome never changes.
C7_WaitOutcome ==
    /\ [](wpc = "returned" =>
            /\ seen = "Completed" /\ runStatus = "Completed"
            /\ wres = [kind |-> "value", output |-> runOutput, msg |-> ""])
    /\ [](seen \in {"Failed", "Cancelled"} =>
            /\ runStatus = seen
            /\ wpc = "raised"
            /\ wres.kind = "RuntimeError"
            /\ wres.msg = IF runOutput.error # <<>> THEN runOutput.error[1] ELSE "Unknown error")
    /\ [](wpc = "raised" => seen \in {"Failed", "Cancelled"})
    /\ [](wpc = "timeout" =>
            /\ wres.kind = "TimeoutError"
            /\ seen \notin {"Completed", "Failed", "Cancelled"}
            /\ elapsed >= timeout)
    /\ [][WaitOver => (wpc' = wpc /\ wres' = wres)]_vars

\* The wait slept, then read a failed run and raised its message.
C7_Witness ==
    /\ wpc = "raised"
    /\ runStatus = "Failed"
    /\ wres.msg = "boom"
    /\ elapsed >= 1

\* The wait timed out and the run completed afterwards.
C7_WitnessLate ==
    /\ wpc = "timeout"
    /\ runStatus = "Completed"

(***************************************************************************)
(* SpecChunk: load_and_chunk_pdf on one file.  The file has up to MaxPages *)
(* pages; page i holds PageLens characters of its own, some pages none.    *)
(***************************************************************************)
PageLens == {0, 300, 1000, 1001, 1800, 2500, 2600}

Pdfs ==
    UNION {{[i \in 1..n |-> Page(i, len[i])] : len \in [1..n -> PageLens]} : n \in 0..MaxPages}

\* docs = PDFReader().load_data(file=path); texts = [d.text for d in docs if d.text]
ReadPdf ==
    /\ cpc = "start"
    /\ pdfTexts' = SelectSeq(pdf, LAMBDA d : d.len > 0)
    /\ pdfChunks' = <<>>
    /\ cpc' = "loop"
    /\ UNCHANGED <<pdf, storeVars, jobVars, histVars, admitVars, waitVars>>

\* for t in texts: chunks.extend(splitter.split_text(t))
ExtendChunks ==
    /\ cpc = "loop"
    /\ pdfTexts # <<>>
    /\ pdfChunks' = pdfChunks \o SplitText(Head(pdfTexts))
    /\ pdfTexts' = Tail(pdfTexts)
    /\ UNCHANGED <<pdf, cpc, storeVars, jobVars, histVars, admitVars, waitVars>>

\* return chunks
ReturnChunks ==
    /\ cpc = "loop"
    /\ pdfTexts = <<>>
    /\ cpc' = "returned"
    /\ UNCHANGED <<pdf, pdfTexts, pdfChunks, storeVars, jobVars, histVars, admitVars, waitVars>>

InitChunk ==
    /\ coll = AbsentColl
    /\ JobsIdle
    /\ AdmitIdle
    /\ WaitIdle
    /\ pdf \in Pdfs
    /\ pdfTexts = <<>>
    /\ pdfChunks = <<>>
    /\ cpc = "start"

NextChunk ==
    \/ ReadPdf
    \/ ExtendChunks
    \/ ReturnChunks

SpecChunk == InitChunk /\ [][NextChunk]_vars

(***************************************************************************)
(* Claims checked under SpecChunk.                                         *)
(***************************************************************************)
\* The first n units of a chunk, and its last n units.
Prefix(c, n) == Slice(c.tag, c.off, n)

Suffix(c, n) == Slice(c.tag, c.off + c.len - n, n)

\* C11: the list load_and_chunk_pdf returns has its chunks at the indices
\* 0..k-1, every chunk but the last is exactly chunk_size long, and the last
\* overlap units of each chunk are the first overlap units of the next one,
\* for a file of several pages too.
C11_ChunkCoverage ==
    cpc = "returned" =>
        /\ DOMAIN pdfChunks = 1..Len(pdfChunks)
        /\ \A i \in 1..(Len(pdfChunks) - 1) :
            /\ pdfChunks[i].len = ChunkSize
            /\ pdfChunks[i + 1].len >= ChunkOverlap
            /\ Suffix(pdfChunks[i], ChunkOverlap) = Prefix(pdfChunks[i + 1], ChunkOverlap)

(***************************************************************************)
(* Claims about the stored records, checked under Spec.                    *)
(***************************************************************************)
\* The points of the collection c that carry the id.
PointsWithId(c, id) == {p \in c.points : p.id = id}

\* C12: an upsert of embed-and-upsert for a source whose load step persisted
\* k chunks leaves, for each i in 0..k-1, exactly one point with the id
\* DeriveId(src, i), the vector of chunk i and the payload {source: src,
\* text: chunk i}, and touches no other point; an ingest job that succeeded
\* has the result {ingested: k}.
C12_RecordAlignment ==
    /\ [][\A j \in JobIds :
            Wrote(j) =>
                LET src == memo[j].load[1].source_id
                    cks == memo[j].load[1].chunks
                    ids == {DeriveId(src, i) : i \in 0..(Len(cks) - 1)}
                IN  /\ \A i \in 0..(Len(cks) - 1) :
                          PointsWithId(coll', DeriveId(src, i)) =
                              {[id |-> DeriveId(src, i),
                                vector |-> Embed(cks[i + 1]),
                                payload |-> [source |-> src, text |-> cks[i + 1]]]}
                    /\ Cardinality(ids) = Len(cks)
                    /\ {p \in coll'.points : p.id \notin ids} =
                           {p \in coll.points : p.id \notin ids}]_vars
    /\ [](\A j \in JobIds :
            (event[j].kind = "ingest" /\ status[j] = "succeeded")
                => result[j] = <<[ingested |-> Len(memo[j].load[1].chunks)]>>)

\* An ingest of the three-chunk document has succeeded and its three
\* records are in the collection, beside the records of the other source.
C12_Witness ==
    \E j \in JobIds :
        /\ event[j].kind = "ingest" /\ status[j] = "succeeded"
        /\ result[j] = <<[ingested |-> 3]>>
        /\ \A i \in 0..2 : PointsWithId(coll, DeriveId(event[j].source_id, i)) # {}
        /\ \E p \in coll.points : p.payload.source \notin {event[j].source_id, "ext"}

\* The largest element of a finite set of naturals, 0 for the empty set.
SetMax(S) == IF S = {} THEN 0 ELSE CHOOSE x \in S : \A y \in S : y <= x

\* The ingest jobs of source s whose load step has persisted its chunks.
LoadedFor(s) ==
    {j \in JobIds : event[j].kind = "ingest" /\ event[j].source_id = s /\ memo[j].load # <<>>}

\* The largest chunk count among the succeeded ingests of s, and among the
\* ingests of s whose upsert reached the store.
MaxSucceeded(s) ==
    SetMax({Len(memo[j].load[1].chunks) : j \in {i \in LoadedFor(s) : status[i] = "succeeded"}})

MaxWritten(s) ==
    SetMax({Len(memo[j].load[1].chunks) : j \in {i \in LoadedFor(s) : writes[i] > 0}})

\* The records of source s in the store are those of the indices 0..m-1.
IndicesAre(s, m) ==
    /\ \A i \in 0..(m - 1) : PointsWithId(coll, DeriveId(s, i)) # {}
    /\ \A p \in coll.points :
          p.payload.source = s => \E i \in 0..(m - 1) : p.id = DeriveId(s, i)

\* No job is queued or running.
Quiescent == \A j \in JobIds : status[j] = "none" \/ Terminal(j)

\* No step removes a record: the point count never decreases and a stored id
\* stays stored.
NoDelete ==
    [][/\ Cardinality(coll'.points) >= Cardinality(coll.points)
       /\ \A p \in coll.points : PointsWithId(coll', p.id) # {}]_vars

\* A re-ingest of k chunks leaves the source's records of the indices k and
\* above as they were.
StaleKept ==
    [][\A j \in JobIds :
          Wrote(j) =>
              LET src == memo[j].load[1].source_id
                  k   == Len(memo[j].load[1].chunks)
              IN  \A p \in coll.points :
                      (p.payload.source = src /\ \A i \in 0..(k - 1) : p.id # DeriveId(src, i))
                          => p \in coll'.points]_vars

\* C13, as claimed: no record is deleted, and once the jobs are over the
\* records of each source are those of the indices 0..m-1, m the largest
\* chunk count of a successful ingest of the source.
C13_NoDeleteSucceeded ==
    /\ NoDelete
    /\ StaleKept
    /\ [](Quiescent => \A s \in Sources : IndicesAre(s, MaxSucceeded(s)))

\* C13, amended: no record is deleted, and the records of each source are
\* those of the indices 0..m-1, m the largest chunk count of an ingest of
\* the source whose upsert reached the store, whether or not the job then
\* succeeded; a re-ingest of fewer chunks leaves the older records in place.
C13_NoDeleteWritten ==
    /\ NoDelete
    /\ StaleKept
    /\ [](\A s \in Sources : IndicesAre(s, MaxWritten(s)))

\* A source was ingested with three chunks and then with one: record 0 holds
\* the new text, records 1 and 2 the old one, and a search can return them.
C13_Witness ==
    \E s \in Sources, j, k \in JobIds :
        /\ j \in LoadedFor(s) /\ k \in LoadedFor(s)
        /\ status[j] = "succeeded" /\ status[k] = "succeeded"
        /\ Len(memo[j].load[1].chunks) = 3 /\ Len(memo[k].load[1].chunks) = 1
        /\ \E p \in PointsWithId(coll, DeriveId(s, 0)) : p.payload.text = memo[k].load[1].chunks[1]
        /\ \E p \in PointsWithId(coll, DeriveId(s, 2)) : p.payload.text = memo[j].load[1].chunks[3]
        /\ \E q \in Questions, n \in 1..MaxTopK :
              \E h \in ClientSearch(coll, Embed(q), n) :
                  \E i \in 1..Len(h) : h[i].id = DeriveId(s, 2)

(***************************************************************************)
(* Claims about the result of a query, checked under Spec.                 *)
(***************************************************************************)
\* The positions of the hits of job j whose payload has a text.
WithText(j) == {i \in 1..Len(hits[j]) : Truthy(hits[j][i].payload.text)}

\* C14: a query job that succeeded reports as num_contexts the number of
\* contexts its search step returned, between 0 and top_k; the contexts are
\* the texts of the hits that have one, a hit without text gives neither a
\* context nor a source, every source is the payload source of a hit that
\* gave a context, and there are no more sources than contexts.
C14_QueryResult ==
    \A j \in JobIds :
        (event[j].kind = "query" /\ status[j] = "succeeded") =>
            LET res   == result[j][1]
                found == memo[j].search[1]
            IN  /\ res.num_contexts = Len(found.contexts)
                /\ res.num_contexts \in 0..event[j].top_k
                /\ res.num_contexts = Cardinality(WithText(j))
                /\ \A i \in WithText(j) :
                      \E c \in 1..Len(found.contexts) :
                          found.contexts[c] = hits[j][i].payload.text
                /\ res.sources = {hits[j][i].payload.source : i \in WithText(j)}
                /\ Cardinality(res.sources) <= res.num_contexts

\* A query succeeded whose search returned two hits, one of them without
\* text: one context, one source.
C14_Witness ==
    \E j \in JobIds :
        /\ event[j].kind = "query" /\ status[j] = "succeeded"
        /\ Len(hits[j]) = 2
        /\ Cardinality(WithText(j)) = 1
        /\ result[j][1].num_contexts = 1
        /\ Cardinality(result[j][1].sources) = 1

\* A query succeeded with two contexts of one source.
C14_WitnessOneSource ==
    \E j \in JobIds :
        /\ event[j].kind = "query" /\ status[j] = "succeeded"
        /\ result[j][1].num_contexts = 2
        /\ Cardinality(result[j][1].sources) = 1

====
